---- MODULE Spec2Model ----
(***************************************************************************)
(* A model of the multichannel crate's static bundle (src/src/lib.rs):     *)
(* MultiChannelBuilder::build, MultiSender (send, freeze, unfreeze, clone, *)
(* drop) and MultiReceiver::recv, with the crossbeam Parker as a one-token *)
(* wake signal and each crossbeam channel as a FIFO queue.                 *)
(*                                                                         *)
(* Every atomic load, store or channel operation of the code is one step,  *)
(* so that sends, freezes and drops interleave with the consumer's scan,   *)
(* its two partitions and its blocking receive.                            *)
(***************************************************************************)
EXTENDS Integers, Sequences, FiniteSets, TLC

\* ------------------------------------------------------------------ bounds

\* The number of MultiSender calls (send, freeze, unfreeze, clone, drop)
\* started in one behaviour; recv calls are not bounded.
MaxCalls == 3

\* The number of MultiSender handles ever alive (the built one and its clones).
MaxHandles == 2

\* AtomicUsize arithmetic wraps modulo 2^64; this modulus stands for it, the
\* counter staying far below either.
UsizeModulus == 65536

\* The number of channels new_channel creates in one behaviour of the
\* dynamic bundle.
MaxIds == 3

\* The number of new_channel, remove_channel, send and set_frozen calls
\* started in one behaviour of the dynamic bundle.
MaxDynCalls == 5

\* The number of consumer handles of the dynamic bundle (the first one and
\* its clones).
MaxConsumers == 2

\* ------------------------------------------------- the builder's description

\* An argument of with_channels: one tuple per priority group, in builder
\* order (highest priority first); bounds is {} for None and {n} for Some(n).
\* The frozen flags of the description are chosen in Init.
TwoGroups ==
    << << [weight |-> 1, bounds |-> {}] >>,
       << [weight |-> 2, bounds |-> {1}], [weight |-> 1, bounds |-> {}] >> >>

\* The same with weight 0 for the two channels of the second group.
WithZeroWeight ==
    << << [weight |-> 1, bounds |-> {}] >>,
       << [weight |-> 0, bounds |-> {1}], [weight |-> 0, bounds |-> {}] >> >>

\* The same with a rendezvous channel, bounds Some(0), in the first group.
WithRendezvous ==
    << << [weight |-> 1, bounds |-> {0}] >>,
       << [weight |-> 2, bounds |-> {1}], [weight |-> 1, bounds |-> {}] >> >>

VARIABLE
    channels       \* MultiChannelBuilder.channels, as build was given it

RECURSIVE Offset(_)
\* absolute_index of the first channel of group i (0-based), as build counts it.
Offset(i) == IF i = 0 THEN 0 ELSE Offset(i - 1) + Len(channels[i])

NumChannels == Offset(Len(channels))

Chan == 0 .. (NumChannels - 1)

\* No channel, no group: None.
NoChan == 0 - 1

\* The group (0-based) whose descriptor gets absolute index c in build.
GroupOf(c) == CHOOSE i \in 0 .. (Len(channels) - 1) :
                  Offset(i) <= c /\ c < Offset(i + 1)

Descriptor(c) == channels[GroupOf(c) + 1][c - Offset(GroupOf(c)) + 1]

\* Receiver.weight
WeightOf(c) == Descriptor(c).weight

\* The capacity given to crossbeam_channel::bounded / unbounded.
BoundsOf(c) == Descriptor(c).bounds

\* MultiReceiver.receivers as build leaves it: each Receiver is named by its
\* original_index.
BuildReceivers ==
    [i \in 1 .. Len(channels) |->
        [j \in 1 .. Len(channels[i]) |-> Offset(i - 1) + j - 1]]

Handle == 1 .. MaxHandles

\* ------------------------------------------------------------------- state

\* A message is named << c, n >>: the n-th message enqueued in channel c. The
\* code never inspects a message, so the name stands for whatever value the
\* caller passed.

VARIABLES
    receivers,     \* MultiReceiver.receivers: groups of original_index values
    queue,         \* the messages buffered in each crossbeam channel
    frozen,        \* the shared AtomicBool of each channel
    token,         \* the Parker's token
    pending_msgs,  \* the shared AtomicUsize (as a mathematical integer)
    disconnected,  \* the shared AtomicBool set by the last sender's drop
    ralive,        \* the MultiReceiver has not been dropped
    spc,           \* each MultiSender handle's position
    sidx,          \* send's index argument
    sres,          \* the result a send of the handle has just returned
    rpc,           \* the consumer's position in recv
    ri, rj,        \* the scan's loop indices
    prio,          \* the group the scan chose (-1 for None)
    pf, pb,        \* partition: the front and back of its iterator
    psplit,        \* partition: split_index
    chosen,        \* the original_index of the receiver recv selected
    rres,          \* the result recv has just returned
    rsrc,          \* the channel that result's message came from
    ncalls,        \* history: MultiSender calls started
    sent,          \* history: the messages enqueued in each channel, in order
    rcvd,          \* history: the messages recv returned from each channel
    sdead,         \* history: the handle's send began after the receiver's drop
    erred,         \* history: a recv call has returned AllSendersDropped
    rquiet,        \* history: no send, freeze or unfreeze ran during the call
    rfirst,        \* history: the first eligible group when a quiet call began
    rfrozen,       \* history: the channels frozen ever since the call began
    rthaw,         \* history: an unfreeze took effect during the call
    thawed         \* history: the buffered messages whose channel was unfrozen

\* The dynamic bundle (DynMultiReceiver and its senders), as spec.md
\* describes it. A channel is named by its identifier.
VARIABLES
    dstate,        \* each identifier: "unborn", "live" (in the index),
                   \* "removed" (by remove_channel), "cleaned" (by cleanup)
    dprio,         \* Channel Record: the priority class
    dfrozen,       \* Channel Record: the freeze flag
    dfifo,         \* Channel Record: the messages in the underlying FIFO
    dgroups,       \* Priority Index: the groups, each [prio, recs]
    dmap,          \* Priority Index: identifier -> << group index, position >>
    dsem,          \* Wake Signal: the counter
    dppc,          \* each channel's producer: its position in send
    dcpc,          \* each consumer: its position in receive
    dcg,           \* each consumer: the group its selection attempt is at
    dcands,        \* each consumer: its candidate list
    dres,          \* each consumer: the message receive has just returned
    dsres,         \* each producer: the result send has just returned
    dsent,         \* history: the messages pushed into each channel, in order
    drcvd,         \* history: the messages popped from each channel, in order
    dnsends,       \* history: sends started
    dntoggles,     \* history: set_frozen calls
    dquiet,        \* history: nothing else ran during the consumer's attempt
    dfirst,        \* history: the first eligible group when the attempt began
    dpassed,       \* history: a frozen channel a receive has passed over
    ddropped,      \* the channels whose producer handle has been dropped
    dcleanup,      \* the pending-cleanup set
    dflag          \* the flag raised with the pending-cleanup set

staticVars == << channels, receivers, queue, frozen, token, pending_msgs,
                 disconnected, ralive,
                 spc, sidx, sres, rpc, ri, rj, prio, pf, pb, psplit, chosen,
                 rres, rsrc, ncalls, sent, rcvd, sdead, erred, rquiet, rfirst,
                 rfrozen, rthaw, thawed >>

dynVars == << dstate, dprio, dfrozen, dfifo, dgroups, dmap, dsem, dppc, dcpc,
              dcg, dcands, dres, dsres, dsent, drcvd, dnsends, dntoggles,
              dquiet, dfirst, dpassed, ddropped, dcleanup, dflag >>

vars == << staticVars, dynVars >>

recvLocals == << ri, rj, prio, pf, pb, psplit, chosen >>

\* ----------------------------------------------------------------- helpers

\* Arc::strong_count(&pending_msgs): the receiver's reference and one for
\* each handle whose fields have not been dropped yet.
StrongCount ==
    (IF ralive THEN 1 ELSE 0)
    + Cardinality({h \in Handle : spc[h] \notin {"unborn", "dropped"}})

\* Every crossbeam Sender of a channel is gone: each handle holds one.
SendersGone == \A h \in Handle : spc[h] \in {"unborn", "dropped"}

InSend(h) == spc[h] \in {"send", "send_unpark", "send_add"}

\* inner.is_empty() is false and the frozen flag reads false.
Eligible(c) == Len(queue[c]) > 0 /\ ~frozen[c]

EligibleSet == {c \in Chan : Eligible(c)}

FrozenSet == {c \in Chan : frozen[c]}

\* The first group, in builder order, holding an eligible channel (or -1).
FirstEligibleGroup ==
    IF EligibleSet = {} THEN NoChan
    ELSE CHOOSE i \in 0 .. (Len(channels) - 1) :
             /\ \E c \in EligibleSet : GroupOf(c) = i
             /\ \A c \in EligibleSet : GroupOf(c) >= i

RECURSIVE FirstFrom(_)
\* The loop indices of the first receiver at or after group i.
FirstFrom(i) ==
    IF i >= Len(receivers) THEN << Len(receivers), 0 >>
    ELSE IF Len(receivers[i + 1]) > 0 THEN << i, 0 >>
    ELSE FirstFrom(i + 1)

\* The loop indices after (i, j) in recv's two nested for loops.
ScanNext(i, j) ==
    IF j + 1 < Len(receivers[i + 1]) THEN << i, j + 1 >> ELSE FirstFrom(i + 1)

\* A swap that overwrites one of the two.
SwapMut(s, a, b) == [s EXCEPT ![a] = s[b]]
\* <[T]>::swap(a, b).
Swap(s, a, b) == [s EXCEPT ![a] = s[b], ![b] = s[a]]

\* -------------------------------------------------------------------- Init

Ids == 1 .. MaxIds

Consumer == 1 .. MaxConsumers

\* No message: the value of a result nobody has just been given.
NoMsg == << >>

\* DynMultiReceiver::new(): an empty index, no token, no channel yet.
DynNew ==
    /\ dstate = [i \in Ids |-> "unborn"]
    /\ dprio = [i \in Ids |-> 0]
    /\ dfrozen = [i \in Ids |-> FALSE]
    /\ dfifo = [i \in Ids |-> << >>]
    /\ dgroups = << >>
    /\ dmap = [i \in Ids |-> << 0, 0 >>]
    /\ dsem = 0
    /\ dppc = [i \in Ids |-> "idle"]
    /\ dcpc = [k \in Consumer |-> "idle"]
    /\ dcg = [k \in Consumer |-> 0]
    /\ dcands = [k \in Consumer |-> {}]
    /\ dres = [k \in Consumer |-> NoMsg]
    /\ dsres = [i \in Ids |-> "None"]
    /\ dsent = [i \in Ids |-> << >>]
    /\ drcvd = [i \in Ids |-> << >>]
    /\ dnsends = 0
    /\ dntoggles = 0
    /\ dquiet = [k \in Consumer |-> FALSE]
    /\ dfirst = [k \in Consumer |-> 0]
    /\ dpassed = 0
    /\ ddropped = {}
    /\ dcleanup = {}
    /\ dflag = FALSE

\* The state with_channels(desc).build() returns: one MultiSender, one
\* MultiReceiver, empty channels, the frozen flags of the description.
Build(desc) ==
    /\ channels = desc
    /\ receivers = BuildReceivers
    /\ queue = [c \in Chan |-> << >>]
    /\ frozen \in [Chan -> BOOLEAN]
    /\ token = FALSE
    /\ pending_msgs = 0
    /\ disconnected = FALSE
    /\ ralive = TRUE
    /\ spc = [h \in Handle |-> IF h = 1 THEN "idle" ELSE "unborn"]
    /\ sidx = [h \in Handle |-> 0]
    /\ sres = [h \in Handle |-> "None"]
    /\ rpc = "idle"
    /\ ri = 0 /\ rj = 0 /\ prio = NoChan /\ pf = 0 /\ pb = 0 /\ psplit = 0
    /\ chosen = 0
    /\ rres = "None"
    /\ rsrc = NoChan
    /\ ncalls = 0
    /\ sent = [c \in Chan |-> << >>]
    /\ rcvd = [c \in Chan |-> << >>]
    /\ sdead = [h \in Handle |-> FALSE]
    /\ erred = FALSE
    /\ rquiet = FALSE
    /\ rfirst = NoChan
    /\ rfrozen = {}
    /\ rthaw = FALSE
    /\ thawed = {}
    /\ DynNew

Init == Build(TwoGroups)

\* A result is visible in the state its call returns into; the next step of
\* any thread clears it.
NoRecvResult == rres' = "None" /\ rsrc' = NoChan

NoSendResult == sres' = [h \in Handle |-> "None"]

SendResult(h, r) == sres' = [g \in Handle |-> IF g = h THEN r ELSE "None"]

\* ----------------------------------------------------------------- history

\* The step is one of a send, a freeze or an unfreeze.
SenderOp ==
    \/ frozen' # frozen
    \/ \E h \in Handle : spc'[h] # spc[h] /\ (InSend(h) \/ spc'[h] = "send")

\* The messages buffered in channel c.
Buffered(c) == {queue[c][k] : k \in 1 .. Len(queue[c])}

\* The channels the step unfreezes.
Thawing == {c \in Chan : frozen[c] /\ ~frozen'[c]}

\* The history of the recv call in progress. It is kept into the state the
\* call returns into and cleared by the next step.
Observe ==
    LET call == rpc = "idle" /\ rpc' # "idle" IN
    /\ UNCHANGED << channels, dynVars >>
    /\ rquiet' = IF call THEN \A h \in Handle : ~InSend(h)
                 ELSE IF rpc = "idle" THEN FALSE
                 ELSE rquiet /\ ~SenderOp
    /\ rfirst' = IF ~rquiet' THEN NoChan
                 ELSE IF call THEN FirstEligibleGroup
                 ELSE rfirst
    /\ rfrozen' = IF call THEN FrozenSet
                  ELSE IF rpc = "idle" THEN {}
                  ELSE rfrozen \cap FrozenSet'
    /\ rthaw' = IF call \/ rpc' = "idle" THEN FALSE
                ELSE rthaw \/ \E c \in Chan : frozen[c] /\ ~frozen'[c]
    /\ thawed' = {m \in thawed \cup UNION {Buffered(c) : c \in Thawing} :
                      \E c \in Chan : m \in Buffered(c)}
    /\ erred' = (erred \/ rres' = "Err")

\* ------------------------------------------------------------- MultiSender

\* send, line 188: the first unpark (the call's arguments are fixed here).
SendCall(h, c) ==
    /\ spc[h] = "idle"
    /\ ncalls < MaxCalls
    /\ token' = TRUE
    /\ spc' = [spc EXCEPT ![h] = "send"]
    /\ sidx' = [sidx EXCEPT ![h] = c]
    /\ sdead' = [sdead EXCEPT ![h] = ~ralive]
    /\ ncalls' = ncalls + 1
    /\ NoSendResult /\ NoRecvResult
    /\ UNCHANGED << receivers, queue, frozen, pending_msgs, disconnected,
                    ralive, rpc, recvLocals, sent, rcvd >>
    /\ Observe

\* A send that waits while the channel is frozen.
HasRoomMut(c) == ~frozen[c] /\ \A n \in BoundsOf(c) : Len(queue[c]) < n
\* The crossbeam channel has room for one more message. A zero-capacity
\* channel never has: its send waits for a receiver blocked in inner.recv()
\* on it, and recv calls inner.recv() only on a channel it read as non-empty
\* (see InnerRecvOnNonEmpty).
HasRoom(c) == \A n \in BoundsOf(c) : Len(queue[c]) < n

\* A send that never fails.
SendFailsMut(c) == FALSE
\* crossbeam's Sender::send fails: every Receiver of the channel is dropped.
SendFails(c) == ~ralive

\* send, lines 189-191: the blocking inner.send and the early return.
SendInner(h) ==
    /\ spc[h] = "send"
    /\ IF SendFails(sidx[h])
       THEN /\ spc' = [spc EXCEPT ![h] = "idle"]
            /\ SendResult(h, "Err")
            /\ UNCHANGED << queue, sent, sidx >>
       ELSE /\ HasRoom(sidx[h])
            /\ queue' = [queue EXCEPT ![sidx[h]] =
                            Append(@, << sidx[h], Len(sent[sidx[h]]) + 1 >>)]
            /\ sent' = [sent EXCEPT ![sidx[h]] =
                           Append(@, << sidx[h], Len(sent[sidx[h]]) + 1 >>)]
            /\ spc' = [spc EXCEPT ![h] = "send_unpark"]
            /\ NoSendResult
            /\ UNCHANGED sidx
    /\ NoRecvResult
    /\ UNCHANGED << receivers, frozen, token, pending_msgs, disconnected,
                    ralive, sdead, rpc, recvLocals, ncalls, rcvd >>
    /\ Observe

\* send, line 192: the second unpark.
SendUnpark(h) ==
    /\ spc[h] = "send_unpark"
    /\ token' = TRUE
    /\ spc' = [spc EXCEPT ![h] = "send_add"]
    /\ NoSendResult /\ NoRecvResult
    /\ UNCHANGED << receivers, queue, frozen, pending_msgs, disconnected,
                    ralive, sidx, sdead, rpc, recvLocals, ncalls, sent, rcvd >>
    /\ Observe

\* A fetch_add that is forgotten.
FetchAddMut(n) == n
\* Line 193: pending_msgs.fetch_add(1), the counter's new value.
FetchAdd(n) == (n + 1) % UsizeModulus

\* send, lines 193-194: fetch_add and Ok(()).
SendAdd(h) ==
    /\ spc[h] = "send_add"
    /\ pending_msgs' = FetchAdd(pending_msgs)
    /\ spc' = [spc EXCEPT ![h] = "idle"]
    /\ sidx' = [sidx EXCEPT ![h] = 0]
    /\ SendResult(h, "Ok")
    /\ NoRecvResult
    /\ UNCHANGED << receivers, queue, frozen, token, disconnected, ralive,
                    sdead, rpc, recvLocals, ncalls, sent, rcvd >>
    /\ Observe

\* freeze and unfreeze, lines 197-203: one store into the channel's flag.
SetFrozen(h, c, b) ==
    /\ spc[h] = "idle"
    /\ ncalls < MaxCalls
    /\ ncalls' = ncalls + 1
    /\ frozen[c] # b
    /\ frozen' = [frozen EXCEPT ![c] = b]
    /\ NoSendResult /\ NoRecvResult
    /\ UNCHANGED << receivers, queue, token, pending_msgs, disconnected,
                    ralive, spc, sidx, sdead, rpc, recvLocals, sent,
                    rcvd >>
    /\ Observe

Freeze(h, c) == SetFrozen(h, c, TRUE)

Unfreeze(h, c) == SetFrozen(h, c, FALSE)

\* #[derive(Clone)]: handle g, the first one not yet in use, is cloned from
\* handle h.
Clone(h, g) ==
    /\ spc[h] = "idle"
    /\ spc[g] = "unborn"
    /\ \A k \in Handle : k < g => spc[k] # "unborn"
    /\ ncalls < MaxCalls
    /\ ncalls' = ncalls + 1
    /\ spc' = [spc EXCEPT ![g] = "idle"]
    /\ NoSendResult /\ NoRecvResult
    /\ UNCHANGED << receivers, queue, frozen, token, pending_msgs,
                    disconnected, ralive, sidx, sdead, rpc, recvLocals,
                    sent, rcvd >>
    /\ Observe

\* Drop::drop, line 179: the load of the strong count and its test.
DropCheck(h) ==
    /\ spc[h] = "idle"
    /\ ncalls < MaxCalls
    /\ ncalls' = ncalls + 1
    /\ spc' = [spc EXCEPT ![h] =
                  IF StrongCount = 2 THEN "drop_store" ELSE "drop_fields"]
    /\ NoSendResult /\ NoRecvResult
    /\ UNCHANGED << receivers, queue, frozen, token, pending_msgs,
                    disconnected, ralive, sidx, sdead, rpc, recvLocals,
                    sent, rcvd >>
    /\ Observe

\* Drop::drop, line 180.
DropStore(h) ==
    /\ spc[h] = "drop_store"
    /\ disconnected' = TRUE
    /\ spc' = [spc EXCEPT ![h] = "drop_unpark"]
    /\ NoSendResult /\ NoRecvResult
    /\ UNCHANGED << receivers, queue, frozen, token, pending_msgs, ralive,
                    sidx, sdead, rpc, recvLocals, ncalls, sent, rcvd >>
    /\ Observe

\* Drop::drop, line 181.
DropUnpark(h) ==
    /\ spc[h] = "drop_unpark"
    /\ token' = TRUE
    /\ spc' = [spc EXCEPT ![h] = "drop_fields"]
    /\ NoSendResult /\ NoRecvResult
    /\ UNCHANGED << receivers, queue, frozen, pending_msgs, disconnected,
                    ralive, sidx, sdead, rpc, recvLocals, ncalls, sent, rcvd >>
    /\ Observe

\* After drop's body the handle's fields are dropped: its crossbeam Senders
\* and its reference to pending_msgs.
DropFields(h) ==
    /\ spc[h] = "drop_fields"
    /\ spc' = [spc EXCEPT ![h] = "dropped"]
    /\ NoSendResult /\ NoRecvResult
    /\ UNCHANGED << receivers, queue, frozen, token, pending_msgs,
                    disconnected, ralive, sidx, sdead, rpc, recvLocals, ncalls,
                    sent, rcvd >>
    /\ Observe

\* ----------------------------------------------------------- MultiReceiver

ResetLocals ==
    /\ ri' = 0 /\ rj' = 0 /\ prio' = NoChan /\ pf' = 0 /\ pb' = 0 /\ psplit' = 0
    /\ chosen' = 0

\* recv returns res; src is the channel an Ok message came from.
Return(res, src) ==
    /\ rpc' = "idle"
    /\ rres' = res
    /\ rsrc' = src
    /\ ResetLocals

\* The consumer calls recv (line 75) and reaches parker.park().
RecvCall ==
    /\ rpc = "idle"
    /\ ralive
    /\ rpc' = "park"
    /\ NoSendResult /\ NoRecvResult
    /\ UNCHANGED << receivers, queue, frozen, token, pending_msgs,
                    disconnected, ralive, spc, sidx, sdead, recvLocals, ncalls,
                    sent, rcvd >>
    /\ Observe

\* A park() that returns at once and leaves the token alone.
ParkMut ==
    /\ rpc = "park"
    /\ token' = token
    /\ ri' = FirstFrom(0)[1]
    /\ rj' = FirstFrom(0)[2]
    /\ prio' = NoChan
    /\ rpc' = IF FirstFrom(0)[1] < Len(receivers) THEN "scan" ELSE "check_count"
    /\ NoSendResult /\ NoRecvResult
    /\ UNCHANGED << receivers, queue, frozen, pending_msgs, disconnected,
                    ralive, spc, sidx, sdead, pf, pb, psplit, chosen, ncalls,
                    sent, rcvd >>
    /\ Observe

\* Line 77: park() returns once the token is there, and takes it; line 80.
Park ==
    /\ rpc = "park"
    /\ token
    /\ token' = FALSE
    /\ ri' = FirstFrom(0)[1]
    /\ rj' = FirstFrom(0)[2]
    /\ prio' = NoChan
    /\ rpc' = IF FirstFrom(0)[1] < Len(receivers) THEN "scan" ELSE "check_count"
    /\ NoSendResult /\ NoRecvResult
    /\ UNCHANGED << receivers, queue, frozen, pending_msgs, disconnected,
                    ralive, spc, sidx, sdead, pf, pb, psplit, chosen, ncalls,
                    sent, rcvd >>
    /\ Observe

\* The test of lines 83-84 on one receiver.
ScanHit(c) == Len(queue[c]) > 0 /\ ~frozen[c]

\* A plain `break` in its place: the outer loop goes on with the next group.
BreakOuterMut(i) == FirstFrom(i + 1)
\* Line 87, `break 'outer`: where the scan goes on after a hit in group i
\* (past the last group: nowhere).
BreakOuter(i) == << Len(receivers), 0 >>

\* Lines 81-90: one iteration of the inner loop, on receivers[ri][rj]. A hit
\* sets prio and leaves both loops; after the loops, lines 91 and 103: no
\* prio, or the first partition on receivers[prio].
Scan ==
    /\ rpc = "scan"
    /\ LET hit == ScanHit(receivers[ri + 1][rj + 1])
           nxt == IF hit THEN BreakOuter(ri) ELSE ScanNext(ri, rj)
           p == IF hit THEN ri ELSE prio
       IN IF nxt[1] < Len(receivers)
          THEN /\ ri' = nxt[1] /\ rj' = nxt[2]
               /\ prio' = p
               /\ rpc' = "scan"
               /\ UNCHANGED << pf, pb, psplit >>
          ELSE IF p = NoChan
          THEN /\ rpc' = "check_count"
               /\ ri' = 0 /\ rj' = 0
               /\ UNCHANGED << prio, pf, pb, psplit >>
          ELSE /\ prio' = p
               /\ rpc' = "partF"
               /\ pf' = 0
               /\ pb' = Len(receivers[p + 1])
               /\ psplit' = 0
               /\ ri' = 0 /\ rj' = 0
    /\ NoSendResult /\ NoRecvResult
    /\ UNCHANGED << receivers, queue, frozen, token, pending_msgs,
                    disconnected, ralive, spc, sidx, sdead, chosen, ncalls,
                    sent, rcvd >>
    /\ Observe

\* Lines 91-95: no group was found; the strong count is 1.
CheckCount ==
    /\ rpc = "check_count"
    /\ IF StrongCount = 1
       THEN Return("Err", NoChan)
       ELSE /\ rpc' = "check_disc"
            /\ NoRecvResult
            /\ UNCHANGED recvLocals
    /\ NoSendResult
    /\ UNCHANGED << receivers, queue, frozen, token, pending_msgs,
                    disconnected, ralive, spc, sidx, sdead, ncalls, sent, rcvd >>
    /\ Observe

\* Lines 96-99: the disconnected flag, else `continue`.
CheckDisc ==
    /\ rpc = "check_disc"
    /\ IF disconnected
       THEN Return("Err", NoChan)
       ELSE /\ rpc' = "park"
            /\ NoRecvResult
            /\ UNCHANGED recvLocals
    /\ NoSendResult
    /\ UNCHANGED << receivers, queue, frozen, token, pending_msgs,
                    disconnected, ralive, spc, sidx, sdead, ncalls, sent, rcvd >>
    /\ Observe

\* A first partition that keeps every receiver.
NotFrozenMut(c) == TRUE
\* The predicate of the first partition (lines 103-105).
NotFrozen(c) == ~frozen[c]

\* A second partition that keeps every receiver.
NotEmptyMut(c) == TRUE
\* The predicate of the second partition (line 108).
NotEmpty(c) == Len(queue[c]) > 0

\* itertools::partition: the receiver its predicate is evaluated on next. In
\* mode "front" it is the iterator's next(), in mode "back" the element rfind
\* looks at, the last one.
PartElem(mode) ==
    LET grp == receivers[prio + 1] IN
    IF mode = "front" THEN grp[pf + 1] ELSE grp[pb]

\* itertools::partition, one evaluation of the predicate, with result ok. In
\* mode "front" the element stays if it satisfies the predicate, else it
\* waits (at index psplit) for a swap. In mode "back" the element, if it
\* satisfies the predicate, is swapped with the waiting one.
PartRead(mode, ok) ==
    LET grp == receivers[prio + 1] IN
    IF mode = "front"
    THEN [pf |-> pf + 1, pb |-> pb,
          psplit |-> IF ok THEN psplit + 1 ELSE psplit,
          grp |-> grp,
          mode |-> IF ok THEN "front" ELSE "back"]
    ELSE [pf |-> pf, pb |-> pb - 1,
          psplit |-> IF ok THEN psplit + 1 ELSE psplit,
          grp |-> IF ok THEN Swap(grp, psplit + 1, pb) ELSE grp,
          mode |-> IF ok THEN "front" ELSE "back"]

\* Lines 103-105: partition(&mut receivers[prio], not frozen), one load of a
\* frozen flag per step. When the iterator is exhausted `end` is psplit and
\* line 108 starts on receivers[prio][..end]; an empty slice leaves no
\* receiver, and line 113 continues the loop.
PartFrozen(mode) ==
    /\ rpc = (IF mode = "front" THEN "partF" ELSE "partFb")
    /\ LET r == PartRead(mode, NotFrozen(PartElem(mode))) IN
       /\ receivers' = [receivers EXCEPT ![prio + 1] = r.grp]
       /\ IF r.pf < r.pb
          THEN /\ pf' = r.pf /\ pb' = r.pb /\ psplit' = r.psplit
               /\ rpc' = (IF r.mode = "front" THEN "partF" ELSE "partFb")
               /\ UNCHANGED << ri, rj, prio, chosen >>
          ELSE IF r.psplit = 0
          THEN /\ rpc' = "park"
               /\ ResetLocals
          ELSE /\ pf' = 0 /\ pb' = r.psplit /\ psplit' = 0
               /\ rpc' = "partE"
               /\ UNCHANGED << ri, rj, prio, chosen >>
    /\ NoSendResult /\ NoRecvResult
    /\ UNCHANGED << queue, frozen, token, pending_msgs, disconnected, ralive,
                    spc, sidx, sdead, ncalls, sent, rcvd >>
    /\ Observe

\* WeightedIndex::sample over the first n receivers of grp: an index of
\* positive weight (lines 123-124); a single receiver is taken as it is
\* (line 115). With no positive weight among several WeightedIndex::new is
\* an Err and its unwrap() panics: no index.
Sample(grp, n) ==
    IF n = 1 THEN {1} ELSE {k \in 1 .. n : WeightOf(grp[k]) > 0}

\* Line 108: partition(&mut receivers[prio][..end], not empty), one
\* is_empty() per step. When the iterator is exhausted lines 109-124 select
\* among receivers[prio][..end], or continue the loop if there is none.
PartEmpty(mode) ==
    /\ rpc = (IF mode = "front" THEN "partE" ELSE "partEb")
    /\ LET r == PartRead(mode, NotEmpty(PartElem(mode))) IN
       /\ receivers' = [receivers EXCEPT ![prio + 1] = r.grp]
       /\ IF r.pf < r.pb
          THEN /\ pf' = r.pf /\ pb' = r.pb /\ psplit' = r.psplit
               /\ rpc' = (IF r.mode = "front" THEN "partE" ELSE "partEb")
               /\ UNCHANGED << ri, rj, prio, chosen >>
          ELSE IF r.psplit = 0
          THEN /\ rpc' = "park"
               /\ ResetLocals
          ELSE IF Sample(r.grp, r.psplit) = {}
          THEN Return("Panic", NoChan)
          ELSE /\ \E k \in Sample(r.grp, r.psplit) : chosen' = r.grp[k]
               /\ rpc' = "unpark"
               /\ ri' = 0 /\ rj' = 0 /\ prio' = NoChan /\ pf' = 0
               /\ pb' = 0 /\ psplit' = 0
       /\ r.pf < r.pb \/ r.psplit = 0 \/ Sample(r.grp, r.psplit) # {}
              => NoRecvResult
    /\ NoSendResult
    /\ UNCHANGED << queue, frozen, token, pending_msgs, disconnected, ralive,
                    spc, sidx, sdead, ncalls, sent, rcvd >>
    /\ Observe

\* A consumer that returns without unparking itself.
RecvUnparkMut ==
    /\ rpc = "unpark"
    /\ rpc' = "fetch_sub"
    /\ NoSendResult /\ NoRecvResult
    /\ UNCHANGED << receivers, queue, frozen, pending_msgs, disconnected,
                    ralive, spc, sidx, sdead, recvLocals, ncalls, sent, rcvd,
                    token >>
    /\ Observe

\* Lines 116 and 125: the consumer unparks itself.
RecvUnpark ==
    /\ rpc = "unpark"
    /\ token' = TRUE
    /\ rpc' = "fetch_sub"
    /\ NoSendResult /\ NoRecvResult
    /\ UNCHANGED << receivers, queue, frozen, pending_msgs, disconnected,
                    ralive, spc, sidx, sdead, recvLocals, ncalls, sent, rcvd >>
    /\ Observe

\* AtomicUsize::fetch_sub(1): the value stored, which wraps below zero.
FetchSubValue(n) == (n - 1) % UsizeModulus

\* Lines 117 and 126.
FetchSub ==
    /\ rpc = "fetch_sub"
    /\ pending_msgs' = FetchSubValue(pending_msgs)
    /\ rpc' = "inner_recv"
    /\ NoSendResult /\ NoRecvResult
    /\ UNCHANGED << receivers, queue, frozen, token, disconnected, ralive,
                    spc, sidx, sdead, recvLocals, ncalls, sent, rcvd >>
    /\ Observe

\* A channel that hands out its newest message.
TakeMut(q) == q[Len(q)]
\* The message crossbeam's Receiver::recv takes from a non-empty channel.
Take(q) == Head(q)

\* A channel that keeps the message it handed out.
RestMut(q) == q
\* What it leaves in the channel.
Rest(q) == Tail(q)

\* Lines 118-121 and 127-130: the blocking inner.recv() on the chosen
\* receiver: a message, or Err once the channel is empty and senderless.
InnerRecv ==
    /\ rpc = "inner_recv"
    /\ IF Len(queue[chosen]) > 0
       THEN /\ queue' = [queue EXCEPT ![chosen] = Rest(@)]
            /\ rcvd' = [rcvd EXCEPT ![chosen] = Append(@, Take(queue[chosen]))]
            /\ Return("Ok", chosen)
       ELSE /\ SendersGone
            /\ Return("Err", NoChan)
            /\ UNCHANGED << queue, rcvd >>
    /\ NoSendResult
    /\ UNCHANGED << receivers, frozen, token, pending_msgs, disconnected,
                    ralive, spc, sidx, sdead, ncalls, sent >>
    /\ Observe

\* The consumer drops the MultiReceiver (between calls: recv borrows it).
DropReceiver ==
    /\ rpc = "idle"
    /\ ralive
    /\ ralive' = FALSE
    /\ NoSendResult /\ NoRecvResult
    /\ UNCHANGED << receivers, queue, frozen, token, pending_msgs,
                    disconnected, spc, sidx, sdead, rpc, recvLocals, ncalls,
                    sent, rcvd >>
    /\ Observe

\* ------------------------------------------------------------------- Next

SenderStep(h) ==
    \/ \E c \in Chan : SendCall(h, c)
    \/ SendInner(h)
    \/ SendUnpark(h)
    \/ SendAdd(h)
    \/ \E c \in Chan : Freeze(h, c)
    \/ \E c \in Chan : Unfreeze(h, c)
    \/ \E g \in Handle : Clone(h, g)
    \/ DropCheck(h)
    \/ DropStore(h)
    \/ DropUnpark(h)
    \/ DropFields(h)

ReceiverStep ==
    \/ RecvCall
    \/ Park
    \/ Scan
    \/ CheckCount
    \/ CheckDisc
    \/ PartFrozen("front")
    \/ PartFrozen("back")
    \/ PartEmpty("front")
    \/ PartEmpty("back")
    \/ RecvUnpark
    \/ FetchSub
    \/ InnerRecv
    \/ DropReceiver

Next ==
    \/ \E h \in Handle : SenderStep(h)
    \/ ReceiverStep

Spec == Init /\ [][Next]_vars

\* The bundle built with a rendezvous channel.
InitRendezvous == Build(WithRendezvous)

SpecRendezvous == InitRendezvous /\ [][Next]_vars

\* The bundle built with weights of 0: build checks no weight.
InitZeroWeight == Build(WithZeroWeight)

SpecZeroWeight == InitZeroWeight /\ [][Next]_vars

\* ------------------------------------------------------- the dynamic bundle

\* The priority classes new_channel is given; the class that compares
\* smallest is selected first.
Prios == {1, 2}

\* A sequence with x put in at position i, and one with position i taken out.
InsertAt(s, i, x) == SubSeq(s, 1, i - 1) \o << x >> \o SubSeq(s, i, Len(s))

RemoveAt(s, i) == SubSeq(s, 1, i - 1) \o SubSeq(s, i + 1, Len(s))

\* The binary search over the groups: the position of the group of class p,
\* which is where a group of class p is inserted if there is none.
GroupSlot(gs, p) == Cardinality({i \in 1 .. Len(gs) : gs[i].prio < p}) + 1

GroupFound(gs, p) ==
    GroupSlot(gs, p) <= Len(gs) /\ gs[GroupSlot(gs, p)].prio = p

\* Priority Index, add(priority, record): the groups afterwards.
AddGroups(gs, p, id) ==
    IF GroupFound(gs, p)
    THEN [gs EXCEPT ![GroupSlot(gs, p)].recs = Append(@, id)]
    ELSE InsertAt(gs, GroupSlot(gs, p), [prio |-> p, recs |-> << id >>])

\* Priority Index, add(priority, record): the map afterwards; a new group
\* moves the groups behind it up by one.
AddMap(gs, mp, p, id) ==
    LET g == GroupSlot(gs, p) IN
    IF GroupFound(gs, p)
    THEN [mp EXCEPT ![id] = << g, Len(gs[g].recs) + 1 >>]
    ELSE [j \in Ids |->
             IF j = id THEN << g, 1 >>
             ELSE IF mp[j][1] >= g THEN << mp[j][1] + 1, mp[j][2] >>
             ELSE mp[j]]

\* Priority Index, remove(id): the groups afterwards; a group left empty is
\* deleted.
RemoveGroups(gs, mp, id) ==
    LET g == mp[id][1]
        rest == RemoveAt(gs[g].recs, mp[id][2]) IN
    IF rest = << >> THEN RemoveAt(gs, g) ELSE [gs EXCEPT ![g].recs = rest]

RemoveMapMut(gs, mp, id) ==
    LET g == mp[id][1] IN
    [j \in Ids |->
        IF j = id THEN << 0, 0 >>
        ELSE IF mp[j][1] = g /\ mp[j][2] > mp[id][2]
        THEN << g, mp[j][2] - 1 >>
        ELSE mp[j]]

\* Priority Index, remove(id): the map afterwards; the records behind the
\* removed one slide down, and so do the groups behind a deleted group.
RemoveMap(gs, mp, id) ==
    LET g == mp[id][1] IN
    [j \in Ids |->
        IF j = id THEN << 0, 0 >>
        ELSE IF mp[j][1] = g /\ mp[j][2] > mp[id][2]
        THEN << g, mp[j][2] - 1 >>
        ELSE IF Len(gs[g].recs) = 1 /\ mp[j][1] > g
        THEN << mp[j][1] - 1, mp[j][2] >>
        ELSE mp[j]]

\* A consumer holds the read lock for the duration of a selection attempt.
ReadLocked == \E k \in Consumer : dcpc[k] \in {"select", "pop"}

\* History of the consumers' attempts: a step of anybody else ends the quiet
\* of every attempt under way.
Disturb == dquiet' = [k \in Consumer |-> FALSE]

\* The calls of the dynamic bundle started so far, receive calls apart.
DynCalls ==
    dnsends + dntoggles + Cardinality(ddropped)
    + Cardinality({id \in Ids : dstate[id] # "unborn"})
    + Cardinality({id \in Ids : dstate[id] = "removed"})

\* new_channel(priority, weight, frozen, None): under the write lock, the
\* next identifier gets a record with an unbounded FIFO, added to the index.
NewChannel(id, p, fz) ==
    /\ dstate[id] = "unborn"
    /\ \A j \in Ids : j < id => dstate[j] # "unborn"
    /\ DynCalls < MaxDynCalls
    /\ ~ReadLocked
    /\ dstate' = [dstate EXCEPT ![id] = "live"]
    /\ dprio' = [dprio EXCEPT ![id] = p]
    /\ dfrozen' = [dfrozen EXCEPT ![id] = fz]
    /\ dgroups' = AddGroups(dgroups, p, id)
    /\ dmap' = AddMap(dgroups, dmap, p, id)
    /\ Disturb
    /\ UNCHANGED << dfifo, dsem, dppc, dcpc, dcg, dcands, dres, dsres, dsent,
                    drcvd, dnsends, dntoggles, dfirst >>
    /\ UNCHANGED << dpassed, ddropped, dcleanup, dflag, staticVars >>

\* remove_channel(&sender): under the write lock, the record leaves the
\* index; the messages still in its FIFO are lost with it.
RemoveChannel(id) ==
    /\ dstate[id] = "live"
    /\ DynCalls < MaxDynCalls
    /\ ~ReadLocked
    /\ dstate' = [dstate EXCEPT ![id] = "removed"]
    /\ dgroups' = RemoveGroups(dgroups, dmap, id)
    /\ dmap' = RemoveMap(dgroups, dmap, id)
    /\ dfifo' = [dfifo EXCEPT ![id] = << >>]
    /\ Disturb
    /\ UNCHANGED << dprio, dfrozen, dsem, dppc, dcpc, dcg, dcands, dres,
                    dsres, dsent, drcvd, dnsends, dntoggles, dfirst >>
    /\ UNCHANGED << dpassed, ddropped, dcleanup, dflag, staticVars >>

\* no_channels(): the index holds no group.
NoChannels == dgroups = << >>

DynDisconnectedMut(id) == FALSE

\* The consumer end of the channel's FIFO is gone with the removed record.
DynDisconnected(id) == dstate[id] = "removed"

\* send(msg), first half: the push into the unbounded FIFO, which fails at
\* once when the channel is disconnected.
DynPush(id) ==
    /\ dstate[id] # "unborn"
    /\ id \notin ddropped
    /\ dppc[id] = "idle"
    /\ DynCalls < MaxDynCalls
    /\ dnsends' = dnsends + 1
    /\ IF DynDisconnected(id)
       THEN /\ dsres' = [dsres EXCEPT ![id] = "Err"]
            /\ UNCHANGED << dfifo, dsent, dppc >>
       ELSE /\ dfifo' = [dfifo EXCEPT ![id] = Append(@, << id, Len(dsent[id]) + 1 >>)]
            /\ dsent' = [dsent EXCEPT ![id] = Append(@, << id, Len(@) + 1 >>)]
            /\ dppc' = [dppc EXCEPT ![id] = "signal"]
            /\ dsres' = [dsres EXCEPT ![id] = "None"]
    /\ Disturb
    /\ UNCHANGED << dstate, dprio, dfrozen, dgroups, dmap, dsem, dcpc, dcg,
                    dcands, dres, drcvd, dntoggles, dfirst >>
    /\ UNCHANGED << dpassed, ddropped, dcleanup, dflag, staticVars >>

\* Wake Signal, signal(): one more token.
Signal(n) == n + 1

\* send(msg), second half: the successful push signals the Wake Signal.
DynSignal(id) ==
    /\ dppc[id] = "signal"
    /\ dsem' = Signal(dsem)
    /\ dppc' = [dppc EXCEPT ![id] = "idle"]
    /\ dsres' = [dsres EXCEPT ![id] = "Ok"]
    /\ Disturb
    /\ UNCHANGED << dstate, dprio, dfrozen, dfifo, dgroups, dmap, dcpc, dcg,
                    dcands, dres, dsent, drcvd, dnsends, dntoggles, dfirst >>
    /\ UNCHANGED << dpassed, ddropped, dcleanup, dflag, staticVars >>

\* set_frozen(b) on a producer handle: the flag is stored without any lock;
\* unfreezing a channel with queued messages signals the Wake Signal once.
DynSetFrozen(id, b) ==
    /\ dstate[id] = "live"
    /\ id \notin ddropped
    /\ DynCalls < MaxDynCalls
    /\ dntoggles' = dntoggles + 1
    /\ dfrozen' = [dfrozen EXCEPT ![id] = b]
    /\ dsem' = IF ~b /\ Len(dfifo[id]) > 0 THEN Signal(dsem) ELSE dsem
    /\ Disturb
    /\ UNCHANGED << dstate, dprio, dfifo, dgroups, dmap, dppc, dcpc, dcg,
                    dcands, dres, dsres, dsent, drcvd, dnsends, dfirst >>
    /\ UNCHANGED << dpassed, ddropped, dcleanup, dflag, staticVars >>

\* The producer handle of the channel is dropped, between two of its calls.
DynDropProducer(id) ==
    /\ dstate[id] # "unborn"
    /\ id \notin ddropped
    /\ dppc[id] = "idle"
    /\ DynCalls < MaxDynCalls
    /\ ddropped' = ddropped \cup {id}
    /\ Disturb
    /\ UNCHANGED << dstate, dprio, dfrozen, dfifo, dgroups, dmap, dsem, dppc,
                    dcpc, dcg, dcands, dres, dsres, dsent, drcvd, dnsends,
                    dntoggles, dfirst >>
    /\ UNCHANGED << dpassed, dcleanup, dflag, staticVars >>

\* A record the selector may pick: its FIFO reports a message and its freeze
\* flag is false.
DynEligible(id) == Len(dfifo[id]) > 0 /\ ~dfrozen[id]

\* The class of the first group holding an eligible record (0 if none does).
DynFirst ==
    IF \A id \in Ids : ~(dstate[id] = "live" /\ DynEligible(id)) THEN 0
    ELSE CHOOSE p \in Prios :
             /\ \E id \in Ids : dstate[id] = "live" /\ DynEligible(id)
                                /\ dprio[id] = p
             /\ \A id \in Ids : dstate[id] = "live" /\ DynEligible(id)
                                => dprio[id] >= p

\* receive(): the call begins by testing and clearing the cleanup flag; if
\* it was set the pending-cleanup set is drained first, else the consumer
\* goes to wait on the Wake Signal.
DynRecvCall(k) ==
    /\ dcpc[k] = "idle"
    /\ dcpc' = [dcpc EXCEPT ![k] = IF dflag THEN "cleanup" ELSE "wait"]
    /\ dflag' = FALSE
    /\ dres' = [dres EXCEPT ![k] = NoMsg]
    /\ Disturb
    /\ UNCHANGED << dstate, dprio, dfrozen, dfifo, dgroups, dmap, dsem, dppc,
                    dcg, dcands, dsres, dsent, drcvd, dnsends, dntoggles,
                    dfirst >>
    /\ UNCHANGED << dpassed, ddropped, dcleanup, staticVars >>

\* The identifiers of a set, in the order the drain takes them.
RECURSIVE DrainOrder(_)
DrainOrder(S) ==
    IF S = {} THEN << >>
    ELSE LET id == CHOOSE x \in S : \A y \in S : x <= y IN
         << id >> \o DrainOrder(S \ {id})

\* The index, as the record [groups, map], after the records named in the
\* sequence ids, those still in it, have been removed one by one.
RECURSIVE Drained(_, _, _)
Drained(gs, mp, ids) ==
    IF ids = << >> THEN [groups |-> gs, map |-> mp]
    ELSE IF mp[Head(ids)] = << 0, 0 >> THEN Drained(gs, mp, Tail(ids))
    ELSE Drained(RemoveGroups(gs, mp, Head(ids)),
                 RemoveMap(gs, mp, Head(ids)), Tail(ids))

\* A drain that leaves the index as it is.
CleanedMut(S) == [groups |-> dgroups, map |-> dmap]

\* The index after the pending-cleanup set S has been drained.
Cleaned(S) == Drained(dgroups, dmap, DrainOrder(S))

\* receive(), deferred cleanup: under the write lock the set is drained and
\* each record it names is removed from the index; then the consumer goes to
\* wait on the Wake Signal.
DynCleanup(k) ==
    /\ dcpc[k] = "cleanup"
    /\ ~ReadLocked
    /\ dgroups' = Cleaned(dcleanup).groups
    /\ dmap' = Cleaned(dcleanup).map
    /\ dstate' = [id \in Ids |->
                     IF id \in dcleanup /\ dstate[id] = "live" THEN "cleaned"
                     ELSE dstate[id]]
    /\ dfifo' = [id \in Ids |-> IF id \in dcleanup THEN << >> ELSE dfifo[id]]
    /\ dcleanup' = {}
    /\ dcpc' = [dcpc EXCEPT ![k] = "wait"]
    /\ Disturb
    /\ UNCHANGED << dprio, dfrozen, dsem, dppc, dcg, dcands, dres, dsres,
                    dsent, drcvd, dnsends, dntoggles, dfirst >>
    /\ UNCHANGED << dpassed, ddropped, dflag, staticVars >>

\* Wake Signal, wait(): blocks while the counter is zero, then takes one
\* token; the selection attempt begins at the first group, read-locked.
DynWait(k) ==
    /\ dcpc[k] = "wait"
    /\ dsem > 0
    /\ dsem' = dsem - 1
    /\ dcpc' = [dcpc EXCEPT ![k] = "select"]
    /\ dcg' = [dcg EXCEPT ![k] = 1]
    /\ dquiet' = [j \in Consumer |-> j = k]
    /\ dfirst' = [dfirst EXCEPT ![k] = DynFirst]
    /\ UNCHANGED << dstate, dprio, dfrozen, dfifo, dgroups, dmap, dppc,
                    dcands, dres, dsres, dsent, drcvd, dnsends, dntoggles >>
    /\ UNCHANGED << dpassed, ddropped, dcleanup, dflag, staticVars >>

DynCandidatesMut(g) ==
    {dgroups[g].recs[i] : i \in 1 .. Len(dgroups[g].recs)}

\* Selector, step 1.1: the candidate list of group g.
DynCandidates(g) ==
    {id \in {dgroups[g].recs[i] : i \in 1 .. Len(dgroups[g].recs)} :
        DynEligible(id)}

\* Selector, steps 1.1, 1.2 and 2: the candidate list of the current group
\* is built, an empty one moves the attempt to the next group, and after
\* the last group the read lock is released and the consumer waits again.
DynSelect(k) ==
    /\ dcpc[k] = "select"
    /\ IF dcg[k] > Len(dgroups)
       THEN /\ dcpc' = [dcpc EXCEPT ![k] = "wait"]
            /\ dcg' = [dcg EXCEPT ![k] = 0]
            /\ dfirst' = [dfirst EXCEPT ![k] = 0]
            /\ UNCHANGED dcands
       ELSE IF DynCandidates(dcg[k]) = {}
       THEN /\ dcg' = [dcg EXCEPT ![k] = @ + 1]
            /\ UNCHANGED << dcpc, dcands, dfirst >>
       ELSE /\ dcands' = [dcands EXCEPT ![k] = DynCandidates(dcg[k])]
            /\ dcpc' = [dcpc EXCEPT ![k] = "pop"]
            /\ UNCHANGED << dcg, dfirst >>
    /\ dquiet' = [j \in Consumer |-> j = k /\ dquiet[k]]
    /\ UNCHANGED << dstate, dprio, dfrozen, dfifo, dgroups, dmap, dsem, dppc,
                    dres, dsres, dsent, drcvd, dnsends, dntoggles >>
    /\ UNCHANGED << dpassed, ddropped, dcleanup, dflag, staticVars >>

\* The FIFO after a successful pop.
DynTail(q) == Tail(q)

\* History: the frozen channels of a class before id's that hold a message.
Passed(id) ==
    {c \in Ids : /\ dstate[c] = "live" /\ dfrozen[c] /\ Len(dfifo[c]) > 0
                 /\ dprio[c] < dprio[id]}

\* The non-blocking pop reports Disconnected: the FIFO is empty and every
\* producer of the channel has been dropped.
Disconnected(id) == Len(dfifo[id]) = 0 /\ id \in ddropped

\* Selector, step 1.3: a candidate is sampled (every candidate has a weight
\* of at least 1) and popped without blocking; success returns the message,
\* an empty FIFO takes the candidate off the list, and a disconnected one
\* is put in the pending-cleanup set as well, the flag being raised.
DynPop(k) ==
    /\ dcpc[k] = "pop"
    /\ \E id \in dcands[k] :
        IF Len(dfifo[id]) > 0
        THEN /\ dres' = [dres EXCEPT ![k] = Head(dfifo[id])]
             /\ drcvd' = [drcvd EXCEPT ![id] = Append(@, Head(dfifo[id]))]
             /\ dfifo' = [dfifo EXCEPT ![id] = DynTail(@)]
             /\ dcpc' = [dcpc EXCEPT ![k] = "idle"]
             /\ dcg' = [dcg EXCEPT ![k] = 0]
             /\ dcands' = [dcands EXCEPT ![k] = {}]
             /\ dfirst' = [dfirst EXCEPT ![k] = 0]
             /\ UNCHANGED << dcleanup, dflag >>
             /\ dpassed' = IF Passed(id) = {} THEN dpassed
                            ELSE CHOOSE c \in Passed(id) : TRUE
        ELSE /\ dcleanup' = IF Disconnected(id) THEN dcleanup \cup {id}
                             ELSE dcleanup
             /\ dflag' = (dflag \/ Disconnected(id))
             /\ dcands' = [dcands EXCEPT ![k] = @ \ {id}]
             /\ dcpc' = [dcpc EXCEPT ![k] =
                            IF dcands[k] = {id} THEN "select" ELSE "pop"]
             /\ dcg' = [dcg EXCEPT ![k] =
                           IF dcands[k] = {id} THEN @ + 1 ELSE @]
             /\ UNCHANGED << dres, drcvd, dfifo, dfirst, dpassed >>
    /\ dquiet' = [j \in Consumer |-> j = k /\ dquiet[k]]
    /\ UNCHANGED << dstate, dprio, dfrozen, dgroups, dmap, dsem, dppc, dsres,
                    dsent, dnsends, dntoggles >>
    /\ UNCHANGED << ddropped, staticVars >>

ProducerStep(id) ==
    \/ DynPush(id)
    \/ DynSignal(id)
    \/ DynSetFrozen(id, TRUE)
    \/ DynSetFrozen(id, FALSE)
    \/ DynDropProducer(id)

ConsumerStep(k) ==
    \/ DynRecvCall(k)
    \/ DynCleanup(k)
    \/ DynWait(k)
    \/ DynSelect(k)
    \/ DynPop(k)

RegistryStep(id) ==
    \/ \E p \in Prios, fz \in BOOLEAN : NewChannel(id, p, fz)
    \/ RemoveChannel(id)

DynNext ==
    \/ \E id \in Ids : RegistryStep(id)
    \/ \E id \in Ids : ProducerStep(id)
    \/ \E k \in Consumer : ConsumerStep(k)

\* DynMultiReceiver::new(), next to a static bundle of no channels.
DynInit == Build(<< >>)

SpecDyn == DynInit /\ [][DynNext]_vars

\* ------------------------------------------------------------------ claims

RECURSIVE Total(_, _)
\* The sum of f[c] over the channels 0 .. n-1.
Total(f, n) == IF n = 0 THEN 0 ELSE Total(f, n - 1) + f[n - 1]

\* How many times m occurs in the sequence s.
Count(s, m) == Cardinality({k \in 1 .. Len(s) : s[k] = m})

\* How many times m occurs in the sequences of q, over all the channels.
CountAll(q, m) == Total([c \in Chan |-> Count(q[c], m)], NumChannels)

Range(s) == {s[k] : k \in 1 .. Len(s)}

\* Every message named in a channel, a send history or a receive history.
Messages ==
    UNION {Range(sent[c]) \cup Range(rcvd[c]) \cup Range(queue[c]) : c \in Chan}

\* C1: a recv call during which no send, freeze or unfreeze ran returns a
\* message of the first group, in builder order, that held a non-empty
\* unfrozen channel; never one of a later group.
C1_StrictPriority ==
    (rres = "Ok" /\ rquiet) => GroupOf(rsrc) = rfirst

\* A quiet call has returned a message of the first group while a channel of
\* the second group is non-empty and unfrozen too.
C1_Witness ==
    /\ rres = "Ok" /\ rquiet
    /\ GroupOf(rsrc) = 0
    /\ \E c \in Chan : GroupOf(c) = 1 /\ Eligible(c)

\* C2: no loss, duplication or invention of messages: every message recv
\* returned was enqueued by a send, none is returned twice, and the messages
\* enqueued are those returned together with those still buffered.
C2_NoLossNoDup ==
    \A m \in Messages :
        /\ CountAll(rcvd, m) <= 1
        /\ CountAll(sent, m) = 1
        /\ CountAll(sent, m) = CountAll(rcvd, m) + CountAll(queue, m)

\* With a clone of the sender alive and no call in progress, one message has
\* been returned and another is still buffered.
C2_Witness ==
    /\ \A h \in Handle : spc[h] = "idle"
    /\ rpc = "idle"
    /\ Total([c \in Chan |-> Len(rcvd[c])], NumChannels) >= 1
    /\ Total([c \in Chan |-> Len(queue[c])], NumChannels) >= 1

\* C3: per-channel FIFO order: what recv has returned from a channel is a
\* prefix of what was enqueued in it, in that order, whatever freezes and
\* unfreezes happened in between.
C3_FifoPrefix ==
    \A c \in Chan :
        /\ Len(rcvd[c]) <= Len(sent[c])
        /\ \A k \in 1 .. Len(rcvd[c]) : rcvd[c][k] = sent[c][k]

\* Two messages of one channel have been returned.
C3_Witness == \E c \in Chan : Len(rcvd[c]) >= 2

\* C4: a channel that was frozen when a recv call began and stayed frozen
\* until it returned is not the source of the message the call returns.
C4_FrozenNeverServed ==
    rres = "Ok" => rsrc \notin rfrozen

\* A call has returned a message while a channel of higher priority, frozen
\* all along, holds a message.
C4_Witness ==
    /\ rres = "Ok"
    /\ \E c \in rfrozen : Len(queue[c]) > 0 /\ GroupOf(c) < GroupOf(rsrc)

\* The consumer is blocked in park(): no token.
Parked == rpc = "park" /\ ~token

\* A handle is inside a call that has an unpark still to do.
WakerPending ==
    \E h \in Handle : spc[h] \in {"send", "send_unpark", "drop_store", "drop_unpark"}

\* The handle has been dropped, or its drop is running.
Dropping(h) ==
    spc[h] \in {"unborn", "dropped", "drop_store", "drop_unpark", "drop_fields"}

\* C5: unfreeze wakes a parked consumer: when the consumer is blocked in
\* park() because every non-empty channel is frozen, and unfreeze is called
\* on a channel that holds a message, the wake token is made available
\* (nothing else ends park() when no send or drop follows), so that the
\* parked recv returns a message of that channel.
C5_UnfreezeWakesParked ==
    [][\A c \in Chan :
          (/\ Parked /\ EligibleSet = {}
           /\ frozen[c] /\ ~frozen'[c] /\ Len(queue[c]) > 0) => token']_vars

\* C6: no missed wake-up while a message stays eligible: when recv goes back
\* to park() after its filtering (line 113) while a channel is, and stays,
\* unfrozen and non-empty, with no unfreeze during the call (only freezes of
\* other channels) and no sender with an unpark still to do, the token is
\* available: the consumer does not remain parked.
C6_NoMissedWakeup ==
    [][(/\ rpc \in {"partF", "partFb", "partE", "partEb"}
        /\ rpc' = "park"
        /\ ~WakerPending /\ ~rthaw
        /\ \E c \in Chan : Eligible(c) /\ Eligible(c)') => token']_vars

\* C7: recv returns AllSendersDropped only in the terminal state: every
\* handle is dropped and no unfrozen channel holds a message at that moment;
\* and no recv call returns Ok after one has returned AllSendersDropped.
C7_ErrOnlyWhenTerminal ==
    /\ rres = "Err" => (\A h \in Handle : Dropping(h)) /\ EligibleSet = {}
    /\ erred => rres # "Ok"

\* C8: dropping the last producer releases a parked consumer: when the last
\* handle's drop completes while the consumer, not yet given the terminal
\* error, is in park() with no eligible message, the wake token is available
\* (nothing else ends park() once every handle is gone), whichever way the
\* drops of the clones interleaved.
C8_LastDropReleases ==
    [][(/\ rpc = "park" /\ ~erred /\ EligibleSet = {}
        /\ ~SendersGone /\ SendersGone') => token']_vars

\* C9: the terminal error is returned by every later call without blocking:
\* with every handle dropped and no unfrozen channel holding a message, a
\* recv call made after one that returned AllSendersDropped is not blocked
\* in park().
C9_TerminalNeverBlocks ==
    (SendersGone /\ EligibleSet = {} /\ erred /\ rpc = "park") => token

\* A send of handle h that began after the receiver's drop has not enqueued
\* and has not returned Ok, and it is not blocked on a full channel.
DeadSendState(h) ==
    sdead[h] =>
        /\ spc[h] \notin {"send_unpark", "send_add"}
        /\ sres[h] # "Ok"
        /\ spc[h] = "send" => (SendFails(sidx[h]) \/ HasRoom(sidx[h]))

\* The step in which such a send returns: an error, nothing enqueued, the
\* pending counter as it was.
DeadSendStep(h) ==
    (sdead[h] /\ spc[h] = "send" /\ spc'[h] # "send") =>
        /\ sres'[h] = "Err"
        /\ queue' = queue
        /\ pending_msgs' = pending_msgs

\* C10: send after the consumer is gone fails: a send that begins after the
\* MultiReceiver was dropped returns an error without blocking, on an
\* unbounded, a bounded or a full bounded channel alike, enqueues nothing and
\* leaves pending_msgs unchanged.
C10_SendAfterDropFails ==
    /\ [](\A h \in Handle : DeadSendState(h))
    /\ [][\A h \in Handle : DeadSendStep(h)]_vars

\* A send on a full bounded channel, begun after the receiver's drop, has
\* just returned its error.
C10_Witness ==
    \E h \in Handle :
        /\ sdead[h] /\ sres[h] = "Err"
        /\ BoundsOf(sidx[h]) # {} /\ ~HasRoom(sidx[h])

\* No send and no recv call is in progress.
Quiescent == rpc = "idle" /\ \A h \in Handle : ~InSend(h)

\* pending_msgs_by_channel, summed over the channels.
PendingByChannelSum == Total([c \in Chan |-> Len(queue[c])], NumChannels)

\* C11: pending counter at quiescence: when no send and no recv call is in
\* progress, pending_msgs is the number of sends that returned Ok minus the
\* number of recv calls that returned Ok, and it is the sum over the channels
\* of pending_msgs_by_channel, frozen channels included.
C11_PendingAtQuiescence ==
    Quiescent =>
        /\ pending_msgs = Total([c \in Chan |-> Len(sent[c])], NumChannels)
                          - Total([c \in Chan |-> Len(rcvd[c])], NumChannels)
        /\ pending_msgs = PendingByChannelSum

\* At a quiescent instant a message has been received and another is
\* buffered in a frozen channel.
C11_Witness ==
    /\ Quiescent
    /\ \E c \in Chan : Len(rcvd[c]) >= 1
    /\ \E c \in Chan : frozen[c] /\ Len(queue[c]) >= 1

\* A send on a frozen unbounded channel, the receiver alive, is not blocked.
FrozenSendState(h) ==
    (spc[h] = "send" /\ frozen[sidx[h]] /\ BoundsOf(sidx[h]) = {} /\ ralive)
        => HasRoom(sidx[h])

\* Its steps: inner.send buffers the message; the return is Ok and counts it
\* with the fetch_add of line 193, in the counter's own arithmetic.
FrozenSendStep(h) ==
    LET c == sidx[h] IN
    /\ (spc[h] = "send" /\ spc'[h] # "send" /\ frozen[c] /\ ralive) =>
           /\ spc'[h] = "send_unpark"
           /\ Len(queue'[c]) = Len(queue[c]) + 1
    /\ (spc[h] = "send_add" /\ spc'[h] # "send_add") =>
           /\ sres'[h] = "Ok"
           /\ pending_msgs' = FetchAdd(pending_msgs)

\* A step that changes a frozen flag changes one channel's flag and neither
\* the buffered messages nor the pending counter.
FreezeFrame ==
    frozen' # frozen =>
        /\ \E c \in Chan : frozen' = [frozen EXCEPT ![c] = ~frozen[c]]
        /\ queue' = queue
        /\ pending_msgs' = pending_msgs

\* A buffered message leaves its channel only as the result of recv.
LeavesByRecv ==
    \A c \in Chan :
        queue'[c] # queue[c] /\ Len(queue'[c]) <= Len(queue[c]) =>
            /\ queue'[c] = Tail(queue[c])
            /\ rres' = "Ok" /\ rsrc' = c
            /\ rcvd'[c] = Append(rcvd[c], Head(queue[c]))

\* C12: freezing affects selection only: a send on a frozen unbounded channel
\* returns Ok without blocking, its message buffered and counted as pending;
\* freeze and unfreeze change nothing but one channel's flag; and a buffered
\* message stays in its channel, whatever freezes and unfreezes happen, until
\* recv returns it.
C12_FreezeAffectsSelectionOnly ==
    /\ [](\A h \in Handle : FrozenSendState(h))
    /\ [][(\A h \in Handle : FrozenSendStep(h)) /\ FreezeFrame
          /\ LeavesByRecv]_vars

\* recv has just returned a message that was buffered in its channel when the
\* channel was unfrozen.
C12_Witness ==
    /\ rres = "Ok"
    /\ rcvd[rsrc][Len(rcvd[rsrc])] \in thawed

\* Handle h is in inner.send on an unfrozen zero-capacity channel, the
\* receiver alive: it waits to be paired.
RendezvousWaiting(h) ==
    /\ spc[h] = "send" /\ ralive
    /\ BoundsOf(sidx[h]) = {0} /\ ~frozen[sidx[h]]

\* recv reaches inner.recv() only on a channel that holds a message, so that
\* no send on a zero-capacity channel is ever paired.
InnerRecvOnNonEmpty == rpc = "inner_recv" => Len(queue[chosen]) > 0

\* C13: rendezvous channels are served: while a producer waits in send on an
\* unfrozen capacity-0 channel, a recv call does not go back to park() with
\* no wake token: it pairs with the send (nothing else ends park() and the
\* producer's wait when no other call follows).
C13_RendezvousServed ==
    [][(/\ rpc \notin {"idle", "park"} /\ rpc' = "park"
        /\ \E h \in Handle : RendezvousWaiting(h) /\ RendezvousWaiting(h)')
       => token']_vars

\* The candidates recv selects among when its second partition ends in this
\* step: the record PartRead gives for the last is_empty() read.
Candidates ==
    LET mode == IF rpc = "partE" THEN "front" ELSE "back" IN
    PartRead(mode, NotEmpty(PartElem(mode)))

\* C14: weight 0 is rejected at creation, so no bundle contains a weight-0
\* channel: whenever recv builds the weighted distribution of lines 123-124
\* over two or more candidates, every weight in it is positive (and recv
\* does not panic on it).
C14_NoZeroWeight ==
    [][(/\ rpc \in {"partE", "partEb"}
        /\ rpc' \notin {"partE", "partEb", "park"}
        /\ Candidates.psplit >= 2)
       => /\ \A k \in 1 .. Candidates.psplit :
                 WeightOf(Candidates.grp[k]) > 0
          /\ rres' # "Panic"]_vars

\* The identifiers of the records of group g, and of the whole index.
GroupIds(g) == {dgroups[g].recs[i] : i \in 1 .. Len(dgroups[g].recs)}

Indexed == UNION {GroupIds(g) : g \in 1 .. Len(dgroups)}

Created == {id \in Ids : dstate[id] # "unborn"}

\* C17: once remove_channel has returned, the channel is in no group and
\* has no map entry, no_channels is true as soon as every created channel
\* has been removed, and a send begun on a producer of the removed channel
\* pushes nothing, never waits to signal and returns only the disconnection
\* error.
C17_RemovedIsGone ==
    /\ [](\A id \in Ids : dstate[id] = "removed" =>
            /\ id \notin Indexed
            /\ dmap[id] = << 0, 0 >>
            /\ dfifo[id] = << >>)
    /\ [](Created # {} /\ (\A id \in Created : dstate[id] = "removed")
            => NoChannels)
    /\ [][\A id \in Ids : dstate[id] = "removed" /\ dppc[id] = "idle" =>
            /\ dppc'[id] = "idle"
            /\ dsent'[id] = dsent[id]
            /\ dsres'[id] \in {dsres[id], "Err"}]_vars

\* Two channels were created and removed, the second one first, and the
\* send that followed on one of them has returned the error.
C17_Witness ==
    /\ NoChannels
    /\ Cardinality(Created) >= 2
    /\ \E id \in Ids : dstate[id] = "removed" /\ dsres[id] = "Err"

\* C18: after every add and remove, in every interleaving of new_channel and
\* remove_channel, each live record sits in exactly one group, at the
\* position the map gives for it and under its own priority class, no other
\* identifier has a map entry, no group is empty, the groups are in strict
\* priority order, and the index is empty once no channel is live.
C18_IndexConsistent ==
    /\ \A id \in Ids : dstate[id] # "live" => dmap[id] = << 0, 0 >>
    /\ \A id \in Ids : dstate[id] = "live" =>
        /\ dmap[id][1] \in 1 .. Len(dgroups)
        /\ dmap[id][2] \in 1 .. Len(dgroups[dmap[id][1]].recs)
        /\ dgroups[dmap[id][1]].recs[dmap[id][2]] = id
        /\ dgroups[dmap[id][1]].prio = dprio[id]
    /\ \A g \in 1 .. Len(dgroups) :
        /\ dgroups[g].recs # << >>
        /\ \A i \in 1 .. Len(dgroups[g].recs) :
               dmap[dgroups[g].recs[i]] = << g, i >>
        /\ g > 1 => dgroups[g - 1].prio < dgroups[g].prio
    /\ (\A id \in Ids : dstate[id] # "live") => NoChannels

\* A channel of the preferred class was removed, its group went with it, and
\* the channel of the other class is now in the first group.
C18_Witness ==
    \E a, b \in Ids :
        /\ dstate[a] = "removed" /\ dstate[b] = "live"
        /\ dprio[a] < dprio[b]
        /\ dmap[b] = << 1, 1 >>
        /\ \E c \in Ids : dstate[c] = "live" /\ dmap[c] = << 1, 2 >>

\* C15: each channel's messages are returned in send order; a receive whose
\* selection attempt nothing else interleaves with returns a message of the
\* preferred class among the classes that held an eligible (non-empty,
\* unfrozen) channel when the attempt began, never one of a frozen channel,
\* and it goes back to wait only if no class held one. So the preferred
\* class is emptied first, a frozen preferred channel leaves the turn to the
\* other channel, and after the unfreeze its remaining messages come next.
C15_PriorityAndFreezeOrder ==
    /\ [](\A id \in Ids :
            /\ Len(drcvd[id]) <= Len(dsent[id])
            /\ drcvd[id] = SubSeq(dsent[id], 1, Len(drcvd[id])))
    /\ [][\A k \in Consumer :
            /\ dcpc[k] = "pop" /\ dcpc'[k] = "idle" /\ dquiet[k] =>
                 /\ dprio[dres'[k][1]] = dfirst[k]
                 /\ ~dfrozen[dres'[k][1]]
            /\ dcpc[k] = "select" /\ dcpc'[k] = "wait" /\ dquiet[k] =>
                 dfirst[k] = 0]_vars

\* A receive returned the other channel's message while the preferred
\* channel held its message frozen, and after a set_frozen(false) a receive
\* has now returned that message of the preferred channel.
C15_Witness ==
    \E k \in Consumer, a, b \in Ids :
        /\ dprio[a] < dprio[b]
        /\ dstate[a] = "live" /\ dstate[b] = "live"
        /\ dcpc[k] = "idle" /\ dres[k] = << a, 1 >>
        /\ drcvd[b] # << >>
        /\ dpassed = a /\ ~dfrozen[a]

\* No channel has ever been frozen: none was created frozen and set_frozen
\* was never called.
NeverFrozen == dntoggles = 0 /\ \A id \in Ids : ~dfrozen[id]

\* Consumer k waits with no token, nobody holds a token in a selection
\* attempt, no send is about to signal, and yet a live unfrozen channel
\* holds a message: only a later send or unfreeze can let k go on.
DynStuck(k) ==
    /\ dcpc[k] = "wait"
    /\ dsem = 0
    /\ \A j \in Consumer : dcpc[j] \notin {"select", "pop"}
    /\ \A id \in Ids : dppc[id] # "signal"
    /\ \E id \in Ids : dstate[id] = "live" /\ DynEligible(id)

\* No message is returned twice, neither to two consumers nor twice from
\* its channel.
DynNoDuplicate ==
    /\ \A k, j \in Consumer : k # j /\ dres[k] # NoMsg => dres[k] # dres[j]
    /\ \A id \in Ids : \A i, j \in 1 .. Len(drcvd[id]) :
           i # j => drcvd[id][i] # drcvd[id][j]

\* Every message pushed into a channel that has not been removed is either
\* still queued or has been returned.
DynNoLoss ==
    \A id \in Ids : dstate[id] = "live" => dsent[id] = drcvd[id] \o dfifo[id]

\* Consumer k is the only one that has ever called receive.
Alone(k) == \A j \in Consumer \ {k} : dcpc[j] = "idle" /\ dres[j] = NoMsg

\* C16: with any number of consumers in receive and producers in send, no
\* message is returned twice, none is lost, and, no channel ever being
\* frozen, no consumer is left waiting without a token while a message is
\* queued: every sent message is returned by a receive call, and each of N
\* consumers asked for one of N buffered messages gets one.
C16_ExactlyOnce ==
    /\ DynNoDuplicate
    /\ DynNoLoss
    /\ NeverFrozen => \A k \in Consumer : ~DynStuck(k)

\* With a single consumer and no channel ever frozen, nobody is left
\* waiting next to a queued message.
AloneNeverStuck ==
    \A k \in Consumer : Alone(k) /\ NeverFrozen => ~DynStuck(k)

\* C20: a consumer, even the only one that ever called receive, does not
\* stay parked with no wake token left while an unfrozen channel holds a
\* message, whatever was frozen before; so the k messages of a channel
\* unfrozen under a parked consumer are all received without a further send.
C20_UnfreezeWakesForAll ==
    \A k \in Consumer : Alone(k) => ~DynStuck(k)

\* C21: sends made before the consumer calls recv leave one wake token,
\* however many they were, and it is enough for all of them: a recv call that
\* begins while no send is running and a message is eligible, and that no
\* sender operation interleaves with, does not go back to park() and does not
\* fail, and when the consumer reaches park() in such a call with a message
\* eligible the token is there. Each Ok return puts the token back (lines
\* 116, 125), so that the next of the k calls finds it.
C21_CoalescedWakeups ==
    /\ []((rpc = "park" /\ rquiet /\ ~erred /\ EligibleSet # {}) => token)
    /\ [][(rpc \notin {"idle", "park"} /\ rquiet' /\ rfirst' # NoChan) =>
            (rpc' # "park" /\ rres' # "Err")]_vars

\* Two messages were buffered before the call began, undisturbed the call
\* has returned the first one, and the token is back for the second.
C21_Witness ==
    /\ rres = "Ok" /\ rquiet
    /\ Total([c \in Chan |-> Len(rcvd[c])], NumChannels) = 1
    /\ EligibleSet # {}
    /\ token

\* C22: the blocking receive on the chosen channel neither blocks nor fails:
\* from its selection (line 115 or 124) until inner.recv() is called the
\* chosen channel holds a message, whatever sends, freezes and drops
\* interleave, so that the decrement of line 117/126 is followed by a
\* delivery and inner.recv() returns Ok with one more message of that
\* channel received; its Err branch is not taken.
C22_InnerRecvNeverBlocks ==
    /\ [](rpc \in {"unpark", "fetch_sub", "inner_recv"} =>
            Len(queue[chosen]) > 0)
    /\ [][rpc = "inner_recv" /\ rpc' # "inner_recv" =>
            /\ rres' = "Ok"
            /\ rsrc' = chosen
            /\ Len(rcvd'[chosen]) = Len(rcvd[chosen]) + 1]_vars

\* The last handle was dropped while recv was under way, after the send, and
\* the call has returned the message all the same.
C22_Witness == rres = "Ok" /\ SendersGone /\ ~rquiet

\* The send calls that have enqueued their message so far.
Enqueued == Total([c \in Chan |-> Len(sent[c])], NumChannels)

\* C23: the pending counter never wraps: what pending_msgs() reads is at
\* most the number of sends that have enqueued a message so far, under every
\* interleaving of send and recv.
C23_PendingNeverWraps == pending_msgs <= Enqueued

\* inner.send of handle h waits: the consumer side is alive and the bounded
\* channel is at its capacity.
BlockedSend(h) == spc[h] = "send" /\ ~SendFails(sidx[h]) /\ ~HasRoom(sidx[h])

\* Nobody but the blocked senders has an unpark still to do.
NoOtherWaker ==
    \A h \in Handle :
        spc[h] \in {"send", "send_unpark", "drop_store", "drop_unpark"}
            => BlockedSend(h)

\* A bounded channel never holds more messages than the capacity of its
\* description; a send on an unbounded channel, or one whose MultiReceiver
\* is dropped, can always go on; a send enqueues only when its channel has
\* room, and returns the error only once the MultiReceiver is dropped.
BackPressureSafe ==
    /\ [](\A c \in Chan : \A n \in Descriptor(c).bounds : Len(queue[c]) <= n)
    /\ [](\A h \in Handle : spc[h] = "send" /\
            (Descriptor(sidx[h]).bounds = {} \/ ~ralive)
                => ENABLED SendInner(h))
    /\ [][\A h \in Handle :
            /\ spc[h] = "send" /\ spc'[h] = "send_unpark" =>
                 \A n \in Descriptor(sidx[h]).bounds :
                     Len(queue[sidx[h]]) < n
            /\ spc[h] = "send" /\ sres'[h] = "Err" => ~ralive]_vars

\* C24: bounded back-pressure: the capacity is respected, a send blocked at
\* capacity completes with Ok only after recv made room and with the error
\* only once the consumer side is dropped, an unbounded send never blocks,
\* and while a send is blocked on an unfrozen channel the consumer is not
\* parked with no wake token and no unpark to come: a consumer that keeps
\* receiving gets to that channel and lets the send complete.
C24_BoundedBackPressure ==
    /\ BackPressureSafe
    /\ [](\A h \in Handle :
            BlockedSend(h) /\ ~frozen[sidx[h]] /\ NoOtherWaker => ~Parked)

RECURSIVE RecvGroupOf(_, _, _)
\* MultiReceiver::pending_msgs_by_channel, lines 140-145: the group the
\* loop stops at for index, going on from group i (1-based) with
\* current_index cur; 0 when the groups run out (line 153).
RecvGroupOf(index, i, cur) ==
    IF i > Len(receivers) THEN 0
    ELSE IF cur + Len(receivers[i]) <= index
    THEN RecvGroupOf(index, i + 1, cur + Len(receivers[i]))
    ELSE i

\* What a call that ends in unreachable!() stands for.
Unreachable == 0 - 1

\* MultiReceiver::pending_msgs_by_channel(index), lines 138-154: the length
\* of the receiver of that original_index in the group found.
RecvPendingByChannel(index) ==
    LET g == RecvGroupOf(index, 1, 0) IN
    IF g = 0 THEN Unreachable
    ELSE IF \E j \in 1 .. Len(receivers[g]) : receivers[g][j] = index
    THEN Len(queue[index])
    ELSE Unreachable

\* MultiSender::pending_msgs_by_channel(index): senders[index].inner.len().
SendPendingByChannel(index) == Len(queue[index])

\* C25: the per-channel counts follow the builder's flattened index: the
\* step of a send that enqueues on channel i raises the count of i by one
\* and leaves every other count as it was, and for every valid index, however
\* recv has reordered the receivers inside their groups, the receiver's
\* count equals the sender's count and the number of messages sent to that
\* channel of the description and not yet received.
C25_PendingByChannel ==
    /\ [](\A i \in Chan :
            /\ RecvPendingByChannel(i) = SendPendingByChannel(i)
            /\ SendPendingByChannel(i) = Len(sent[i]) - Len(rcvd[i]))
    /\ [][\A h \in Handle : spc[h] = "send" /\ spc'[h] = "send_unpark" =>
            \A i \in Chan :
                SendPendingByChannel(i)' =
                    SendPendingByChannel(i) + (IF i = sidx[h] THEN 1 ELSE 0)]_vars

\* recv has swapped two receivers of a group, it has returned, and a
\* channel of that group still holds a message.
C25_Witness ==
    /\ rpc = "idle" /\ rres = "Ok"
    /\ \E i \in 1 .. Len(receivers) :
        /\ receivers[i] # BuildReceivers[i]
        /\ \E j \in 1 .. Len(receivers[i]) : Len(queue[receivers[i][j]]) > 0

\* C27: recv does not spin: the consumer leaves park() only by taking the
\* wake token, every scan (lines 81-90, ending in the checks of lines 91-99)
\* starts from there, and a token comes only from an unpark of send, of drop
\* or of a recv that is about to return a message. So with every channel
\* empty or frozen and the senders alive the consumer scans once and stays
\* parked until one of those happens.
C27_NoSpin ==
    [][/\ (rpc = "park" /\ rpc' # "park") => (token /\ ~token')
       /\ (\/ rpc' = "scan" /\ rpc # "scan"
           \/ rpc' = "check_count" /\ rpc \notin {"scan", "check_count"})
             => rpc = "park"
       /\ (~token /\ token') =>
             \/ rpc = "unpark"
             \/ \E h \in Handle :
                   /\ spc'[h] # spc[h]
                   /\ spc'[h] = "send"
                        \/ spc[h] \in {"send_unpark", "drop_unpark"}]_vars

\* A send has completed on a frozen channel, the consumer took its token,
\* scanned, found nothing eligible and is parked again, the sender being
\* alive and idle.
C27_Witness ==
    /\ Parked /\ EligibleSet = {} /\ ~SendersGone /\ ~disconnected
    /\ \A h \in Handle : spc[h] \in {"idle", "unborn"}
    /\ \E c \in Chan : Len(queue[c]) > 0 /\ frozen[c]

\* C26: deferred cleanup: an identifier enters the pending-cleanup set only
\* when a selection attempt's pop finds the FIFO of one of its candidates
\* disconnected, and the flag is raised with it; the set never names a
\* channel whose producer is alive; while the set is not empty the flag is
\* up or a receive call is about to drain it, so the next receive call
\* starts the cleanup; and the drain removes from the index exactly the
\* records the set names and leaves the set empty.
C26_DeferredCleanup ==
    /\ [](dcleanup \subseteq ddropped)
    /\ [](dcleanup # {} => dflag \/ \E k \in Consumer : dcpc[k] = "cleanup")
    /\ [][\A id \in dcleanup' \ dcleanup :
            /\ Disconnected(id) /\ id \in Indexed
            /\ \E k \in Consumer : dcpc[k] = "pop" /\ id \in dcands[k]
            /\ dflag']_vars
    /\ [][\A k \in Consumer : dcpc[k] = "cleanup" /\ dcpc'[k] = "wait" =>
            /\ dcleanup' = {}
            /\ Indexed' = Indexed \ dcleanup
            /\ \A id \in dcleanup : dmap'[id] = << 0, 0 >>]_vars

\* A channel whose producer was dropped was found disconnected by a
\* selection attempt, and a later receive call has removed it from the index.
C26_Witness ==
    \E id \in Ids : dstate[id] = "cleaned" /\ id \in ddropped
                    /\ id \notin Indexed /\ dcleanup = {}


====
